---- MODULE Spec2Model ----
(***************************************************************************)
(* A model of the remote command-execution transport of score_itf          *)
(* (score/itf/core/com/ssh.py): the line reassembler, the stream capture   *)
(* loop of execute_command_output and the connect retry loop of Ssh.       *)
(*                                                                         *)
(* Bytes are integers 0..255, text is a sequence of Unicode code points,   *)
(* a line is a text and a list of lines is a sequence of texts.  Time is   *)
(* counted in ticks of 0.05 s.                                             *)
(***************************************************************************)
EXTENDS Integers, Sequences, FiniteSets, TLC

VARIABLES
    pc,              \* position of the modelled call
    separate_stderr, \* parameter of execute_command_output
    max_exec_time,   \* parameter of execute_command_output, in ticks
    timeout,         \* parameter of execute_command_output: start timeout, in ticks
    clock,           \* wall-clock time (time.time()), in ticks
    now,             \* local 'now' of the capture loop
    deadline,        \* local 'deadline' of the capture loop
    did_read,        \* local 'did_read' of the capture loop
    has_stdout,      \* local 'has_stdout' of the post-exit re-check
    sentOut,         \* every byte fed into the channel's in_buffer, in order
    sentErr,         \* every byte fed into the channel's in_stderr_buffer
    nOut,            \* number of bytes of sentOut consumed by recv
    nErr,            \* number of bytes of sentErr consumed by recv_stderr
    combine,         \* the channel's combine_stderr flag
    chan_timeout,    \* the channel's timeout, in ticks; 0 before it is set
    exited,          \* the channel's exit_status_ready()
    exit_status,     \* the remote process's exit status
    chan_closed,     \* the channel's closed flag
    stdout_lines,    \* local 'stdout_lines'
    stderr_lines,    \* local 'stderr_lines'
    stdout_partial,  \* local 'stdout_partial'
    stderr_partial,  \* local 'stderr_partial'
    exception,       \* third component returned by _read_output_with_timeout
    exit_code,       \* first component returned by execute_command_output
    textOut,         \* history: decoded text of the chunks read from stdout
    textErr,         \* history: decoded text of the chunks read from stderr
    selectable,      \* select.select accepts the channel on this platform
    inTime,          \* history: bytes that reached the channel before the deadline
    polledErr,       \* history: recv_stderr_ready/recv_stderr was called
    nReads,          \* history: number of chunks read from stdout
    retries,         \* Ssh._retries
    retry_interval,  \* Ssh._retry_interval, in seconds
    slept,           \* history: seconds spent in retry sleeps
    attempts,        \* history: number of connect calls made by __enter__
    failures,        \* history: number of connect calls that raised
    sleeps,          \* history: number of retry sleeps made by __enter__
    client,          \* Ssh._ssh: "None", or the state of the paramiko client
    target_ip,       \* Ssh._target_ip
    pkey_path,       \* parameter of Ssh.__init__: "None" or the path of a key file
    keyfile,         \* what each key loader makes of the file at pkey_path
    pkey,            \* Ssh._pkey: "None" or the key type that decoded the file
    error,           \* the exception the modelled call has raised, <<>> if none
    releases,        \* history: times the client's transport was released
    exit_calls,      \* history: number of __exit__ calls
    chan_releases,   \* history: times the current channel was released
    open_channels,   \* history: channels opened on the session and not closed
    ncmds,           \* history: number of commands started on the session
    failed,          \* history: the kinds of command failure seen on the session
    via,             \* which of the two execute calls the body made
    cmd_result,      \* what execute_command, or QemuTarget.execute first, returned
    required,        \* REQUIRED_CAPABILITIES of the target's class
    capabilities,    \* Target._capabilities
    got,             \* what the caller holds of get_capabilities: "None", "copy", "self"
    got_set,         \* the set object get_capabilities made
    output,          \* second component returned by QemuTarget.execute
    nexec,           \* history: number of QemuTarget.execute calls
    left_open        \* history: sessions earlier execute calls left connected

vars == <<pc, separate_stderr, max_exec_time, timeout, clock, now, deadline, did_read,
          has_stdout, sentOut, sentErr, nOut, nErr, combine, chan_timeout, exited,
          exit_status, chan_closed, stdout_lines, stderr_lines,
          stdout_partial, stderr_partial, exception, exit_code, textOut,
          textErr, selectable, inTime, polledErr,
          nReads,
          retries, retry_interval, slept, attempts, failures, sleeps, client,
          target_ip, pkey_path, keyfile, pkey, error, releases, exit_calls,
          chan_releases, open_channels, ncmds, failed, via, cmd_result,
          required, capabilities, got, got_set, output, nexec, left_open>>

(***************************************************************************)
(* Bounds of the model.                                                    *)
(***************************************************************************)
\* longest byte stream fed to the reassembler on its own
MaxStream == 4
\* total number of bytes the remote process writes in one execution
MaxBytes == 3
\* bytes returned by one recv: stands for the chunk size 32768
RecvMax == 2
\* time the non-blocking calls of one loop iteration may take, in ticks
OpCost == 1
\* largest n_retries tried
MaxRetries == 5
\* largest number of commands run in one with block
MaxCommands == 4
\* largest number of __exit__ calls on one Ssh object
MaxExits == 2
\* largest start timeout tried, in ticks
MaxStart == 6
\* cap of the clock, in ticks: above every deadline tried plus OpCost, which
\* is as far as the clock of a call gets
MaxClock == 16
\* largest number of QemuTarget.execute calls made on one target
MaxExecutes == 2

(***************************************************************************)
(* Program constants.                                                      *)
(***************************************************************************)
\* "\n", the only terminator the pending-fragment test looks for
LF == 10
\* "\r"
CR == 13
\* U+FFFD, what errors="replace" decodes an invalid sequence to
Replacement == 65533
\* the idle readiness wait, 0.5 s
PollSlice == 10
\* the post-exit readiness wait, 0.1 s
DrainSlice == 2
\* the fallback sleep, 0.05 s
FallbackSleep == 1
\* the exit status reported on timeout
TimeoutSentinel == -1
\* what recv_exit_status returns for a channel that got no exit status
NoStatus == -1

Min(a, b) == IF a <= b THEN a ELSE b

RECURSIVE Concat(_)
\* "".join(lines)
Concat(lines) == IF lines = <<>> THEN <<>> ELSE Head(lines) \o Concat(Tail(lines))

RECURSIVE SeqsUpTo(_, _)
\* all sequences over S of length at most n
SeqsUpTo(S, n) ==
    IF n = 0 THEN {<<>>}
    ELSE LET shorter == SeqsUpTo(S, n - 1)
         IN  shorter \cup {Append(s, x) : s \in shorter, x \in S}

(***************************************************************************)
(* bytes.decode("utf-8", errors="replace") on ASCII bytes, two-byte        *)
(* sequences (lead 0xC2..0xDF, continuation 0x80..0xBF) and stray bytes.   *)
(* A lead byte that is not followed by a continuation byte, also at the    *)
(* end of the data, and a continuation byte without a lead each decode to  *)
(* U+FFFD; decoding resumes at the next byte.                              *)
(***************************************************************************)
IsLead2(b) == b >= 194 /\ b <= 223
IsCont(b) == b >= 128 /\ b <= 191

RECURSIVE Decode(_)
Decode(data) ==
    IF data = <<>> THEN <<>>
    ELSE LET b == Head(data)
         IN  IF b < 128 THEN <<b>> \o Decode(Tail(data))
             ELSE IF IsLead2(b) /\ Len(data) >= 2 /\ IsCont(data[2])
                  THEN <<(b % 32) * 64 + (data[2] % 64)>> \o Decode(Tail(Tail(data)))
                  ELSE <<Replacement>> \o Decode(Tail(data))

(***************************************************************************)
(* str.splitlines(keepends=True): the line boundaries of Python's str,     *)
(* "\r\n" counting as one terminator.                                      *)
(***************************************************************************)
IsLineBreak(c) == c \in {10, 11, 12, 13, 28, 29, 30, 133, 8232, 8233}

RECURSIVE SplitFrom(_, _)
SplitFrom(text, cur) ==
    IF text = <<>> THEN (IF cur = <<>> THEN <<>> ELSE <<cur>>)
    ELSE LET c == Head(text)
         IN  IF c = CR /\ Len(text) >= 2 /\ text[2] = LF
             THEN <<cur \o <<CR, LF>>>> \o SplitFrom(Tail(Tail(text)), <<>>)
             ELSE IF IsLineBreak(c)
                  THEN <<Append(cur, c)>> \o SplitFrom(Tail(text), <<>>)
                  ELSE SplitFrom(Tail(text), Append(cur, c))

Splitlines(text) == SplitFrom(text, <<>>)

\* line.endswith("\n")
EndsWithLF(line) == line # <<>> /\ line[Len(line)] = LF

\* a reassembler that forgets the pending fragment it is handed
IterDroppingCarry(data, partial) ==
    LET lines == Splitlines(Decode(data))
    IN  IF lines # <<>> /\ ~EndsWithLF(lines[Len(lines)])
        THEN [lines |-> SubSeq(lines, 1, Len(lines) - 1), partial |-> lines[Len(lines)]]
        ELSE [lines |-> lines, partial |-> <<>>]

\* a reassembler that emits every piece and carries nothing over
IterNoCarry(data, partial) ==
    [lines |-> Splitlines(partial \o Decode(data)), partial |-> <<>>]

\* _iter_channel_lines_from_bytes(data, partial): the completed lines and
\* the new pending fragment
IterChannelLinesFromBytes(data, partial) ==
    LET text == partial \o Decode(data)
        lines == Splitlines(text)
    IN  IF lines # <<>> /\ ~EndsWithLF(lines[Len(lines)])
        THEN [lines |-> SubSeq(lines, 1, Len(lines) - 1), partial |-> lines[Len(lines)]]
        ELSE [lines |-> lines, partial |-> <<>>]

\* a flush that appends the pending fragment a second time
FlushTwice(lines, partial) ==
    IF partial # <<>> THEN Append(Append(lines, partial), partial) ELSE lines

\* a flush that drops the pending fragment
FlushDropping(lines, partial) == lines

\* the flush after a normal end of the loop (lines 310-313):
\* "if partial: lines.append(partial)"
FlushPartial(lines, partial) ==
    IF partial # <<>> THEN Append(lines, partial) ELSE lines

\* the flush in the except branch (lines 304-307)
FlushOnException(lines, partial) ==
    IF partial # <<>> THEN Append(lines, partial) ELSE lines

(***************************************************************************)
(* The values the variables of the capture call hold before it starts.     *)
(***************************************************************************)
CaptureIdle ==
    /\ separate_stderr = TRUE /\ max_exec_time = 0 /\ timeout = 0
    /\ clock = 0 /\ now = 0 /\ deadline = 0
    /\ did_read = FALSE /\ has_stdout = FALSE
    /\ sentErr = <<>> /\ nErr = 0
    /\ combine = FALSE /\ chan_timeout = 0
    /\ exited = FALSE /\ exit_status = 0
    /\ chan_closed = FALSE
    /\ stderr_lines = <<>> /\ stderr_partial = <<>>
    /\ exception = "" /\ exit_code = 0
    /\ textErr = <<>>
    /\ selectable = TRUE
    /\ inTime = 0
    /\ polledErr = FALSE

ConnIdle ==
    /\ retries = 0 /\ retry_interval = 0 /\ slept = 0
    /\ attempts = 0 /\ failures = 0 /\ sleeps = 0
    /\ client = "None"
    /\ target_ip = ""

captureRest == <<separate_stderr, max_exec_time, timeout, clock, now, deadline, did_read,
                 has_stdout, sentErr, nErr, combine, chan_timeout, exited, exit_status,
                 chan_closed, stderr_lines, stderr_partial, exception,
                 exit_code, textErr, selectable, inTime,
                 polledErr>>

connVars == <<retries, retry_interval, slept, attempts, failures, sleeps, client,
              target_ip>>

\* the values of the key loading variables of an Ssh object made without key
KeyIdle == pkey_path = "None" /\ keyfile = <<>> /\ pkey = "None"

\* the values of the scope variables before the with block is entered
ScopeIdle ==
    /\ releases = 0 /\ exit_calls = 0
    /\ ncmds = 0 /\ failed = {}
    /\ via = "execute_command_output" /\ cmd_result = 0

\* the values of the target variables while no target is modelled
TargetIdle ==
    /\ required = {} /\ capabilities = {}
    /\ got = "None" /\ got_set = {}
    /\ output = <<>> /\ nexec = 0 /\ left_open = 0

keyVars == <<pkey_path, keyfile, pkey>>
targetVars == <<required, capabilities, got, got_set, output, nexec, left_open>>
scopeVars == <<releases, exit_calls, ncmds, failed, via, cmd_result>>
otherVars == <<keyVars, targetVars, scopeVars, error, chan_releases, open_channels>>

OtherIdle ==
    /\ KeyIdle /\ TargetIdle /\ ScopeIdle /\ error = <<>>
    /\ chan_releases = 0 /\ open_channels = 0

(***************************************************************************)
(* The line reassembler on its own: a byte stream is cut into consecutive  *)
(* chunks, each chunk goes through _iter_channel_lines_from_bytes with the *)
(* pending fragment of the chunk before, and the last pending fragment is  *)
(* flushed as _read_output_with_timeout does.                              *)
(***************************************************************************)
\* the bytes of the streams: "\n", "\r", "a", 0xC2, 0x85, 0xA9
\* (C2 85 encodes U+0085, a line boundary; C2 A9 encodes U+00A9)
StreamBytes == {10, 13, 97, 194, 133, 169}

InitLines ==
    /\ pc = "feed"
    /\ sentOut \in SeqsUpTo(StreamBytes, MaxStream)
    /\ nOut = 0 /\ nReads = 0
    /\ stdout_lines = <<>> /\ stdout_partial = <<>> /\ textOut = <<>>
    /\ CaptureIdle /\ ConnIdle /\ OtherIdle

\* one chunk of k bytes read from in_buffer goes through the reassembler
FeedStdout(k) ==
    LET data == SubSeq(sentOut, nOut + 1, nOut + k)
        r == IterChannelLinesFromBytes(data, stdout_partial)
    IN  /\ stdout_lines' = stdout_lines \o r.lines
        /\ stdout_partial' = r.partial
        /\ nOut' = nOut + k
        /\ nReads' = nReads + 1
        /\ textOut' = textOut \o Decode(data)

FeedChunk ==
    /\ pc = "feed"
    /\ \E k \in 1..(Len(sentOut) - nOut) : FeedStdout(k)
    /\ UNCHANGED <<pc, sentOut, captureRest, connVars, otherVars>>

FlushLines ==
    /\ pc = "feed"
    /\ nOut = Len(sentOut)
    /\ stdout_lines' = FlushPartial(stdout_lines, stdout_partial)
    /\ pc' = "flushed"
    /\ UNCHANGED <<sentOut, nOut, nReads, stdout_partial, textOut, captureRest, connVars, otherVars>>

NextLines == FeedChunk \/ FlushLines

SpecLines == InitLines /\ [][NextLines]_vars

\* the lines the whole stream yields when it is delivered as one chunk
OneChunk(stream) ==
    LET r == IterChannelLinesFromBytes(stream, <<>>)
    IN  FlushPartial(r.lines, r.partial)

\* C1: whatever the chunking of a byte stream, feeding the chunks in turn
\* and flushing yields the lines of the whole stream fed as one chunk.
C1_ChunkingIndependent ==
    pc = "flushed" => stdout_lines = OneChunk(sentOut)

\* the last element of a non-empty text
LastOf(line) == line[Len(line)]

\* a line holds no line boundary before its end ("\r\n" ends a line as one)
NoInnerBreak(line) ==
    \A j \in 1..(Len(line) - 1) :
        IsLineBreak(line[j]) => (line[j] = CR /\ j = Len(line) - 1 /\ line[Len(line)] = LF)

\* lines is text cut after each of its line boundaries and nowhere else
WellSplit(lines, text) ==
    /\ Concat(lines) = text
    /\ \A i \in 1..Len(lines) : lines[i] # <<>> /\ NoInnerBreak(lines[i])
    /\ \A i \in 1..(Len(lines) - 1) :
          /\ IsLineBreak(LastOf(lines[i]))
          /\ ~(LastOf(lines[i]) = CR /\ lines[i + 1][1] = LF)

\* C8: for every chunking, the returned list cuts the decoded output after
\* each line terminator and nowhere else: every terminated line is one
\* entry that keeps its terminator, an unterminated last piece is the last
\* entry, and no entry is empty.
C8_LineSplittingFidelity ==
    pc = "flushed" => WellSplit(stdout_lines, textOut)

\* reached: a stream read in several chunks, with two terminated lines and
\* an unterminated last piece
C8_Witness ==
    /\ pc = "flushed" /\ nReads >= 2
    /\ Len(stdout_lines) = 3
    /\ EndsWithLF(stdout_lines[1])
    /\ ~IsLineBreak(LastOf(stdout_lines[3]))

(***************************************************************************)
(* One call of execute_command_output and the remote process it starts.    *)
(* The call is cut at every point where the channel can change under it:   *)
(* the remote process writes and exits between any two steps of the call.  *)
(***************************************************************************)
\* max_exec_time values tried, in ticks
ExecTimes == {1, PollSlice + 1}
\* start timeouts tried, in ticks
StartTimeouts == {DrainSlice + 1, MaxStart}
\* exit statuses of the remote process
ExitStatuses == {0, 7}
\* bytes the remote process writes to its stdout: "a", "\n"
OutBytes == {97, 10}
\* bytes the remote process writes to its stderr: "e", "\n"
ErrBytes == {101, 10}

\* the address of the target the session is connected to
TargetIp == "192.168.7.2"

\* the session the call is made on: __enter__ has connected it at once
Connected ==
    /\ retries = 1 /\ retry_interval = 1 /\ slept = 0
    /\ attempts = 1 /\ failures = 0 /\ sleeps = 0
    /\ client = "connected"
    /\ target_ip = TargetIp

\* the call is about to start on the connected session
InitCall ==
    /\ pc = "exec"
    /\ clock = 0 /\ now = 0 /\ deadline = 0
    /\ did_read = FALSE /\ has_stdout = FALSE
    /\ sentOut = <<>> /\ sentErr = <<>> /\ nOut = 0 /\ nErr = 0
    /\ combine = FALSE /\ chan_timeout = 0
    /\ exited = FALSE /\ exit_status = 0
    /\ chan_closed = FALSE
    /\ stdout_lines = <<>> /\ stderr_lines = <<>>
    /\ stdout_partial = <<>> /\ stderr_partial = <<>>
    /\ exception = "" /\ exit_code = 0
    /\ textOut = <<>> /\ textErr = <<>>
    /\ inTime = 0
    /\ polledErr = FALSE /\ nReads = 0
    /\ Connected /\ OtherIdle

Init ==
    /\ InitCall
    /\ separate_stderr \in BOOLEAN
    /\ max_exec_time \in ExecTimes
    /\ selectable \in BOOLEAN
    /\ timeout = MaxStart

params == <<separate_stderr, max_exec_time, selectable, timeout>>
stdoutVars == <<stdout_lines, stdout_partial, nOut, nReads, textOut>>
stderrVars == <<stderr_lines, stderr_partial, nErr, textErr>>
timeVars == <<clock, now, deadline>>
procVars == <<sentOut, sentErr, exited, exit_status, inTime>>

\* what exec_command raises when the transport cannot open the channel
OpenFailure == <<"SSHException", "exec_command">>

\* the positions of execute_command_output after exec_command
ChannelPcs == {"configure", "top", "poll_out", "poll_err", "exit_check",
               "drain_wait", "recheck_out", "recheck_err", "idle_wait",
               "except", "flush", "result", "returned", "call_raised"}

\* the channel is open: exec_command has returned it and nobody closed it
ChannelOpen == pc \in ChannelPcs /\ error # OpenFailure /\ ~chan_closed

\* channel.recv_ready()
RecvReady == nOut < Len(sentOut)
\* channel.recv_stderr_ready()
RecvStderrReady == nErr < Len(sentErr)

\* the clock is before the deadline (there is none until the loop is set up)
BeforeDeadline == pc = "configure" \/ clock < deadline

\* select.select([channel], [], [], wait) returns at once while in_buffer or
\* in_stderr_buffer holds data or the channel is closed, else when data or
\* the end of the stream arrives or after wait at the latest
SelectReturns(wait) ==
    IF RecvReady \/ RecvStderrReady \/ chan_closed
    THEN clock' = clock
    ELSE \E d \in 0..wait : clock' = clock + d

(* The remote process. *)
Arrives == inTime' = IF BeforeDeadline THEN inTime + 1 ELSE inTime

\* the process writes one of the bytes B to its stdout
WriteStdout(B) ==
    /\ ChannelOpen
    /\ Len(sentOut) + Len(sentErr) < MaxBytes
    /\ \E b \in B : sentOut' = Append(sentOut, b)
    /\ Arrives
    /\ UNCHANGED <<pc, params, timeVars, did_read, has_stdout, sentErr, exited,
                   exit_status, combine, chan_timeout, chan_closed, stdoutVars, stderrVars,
                   exception, exit_code, polledErr, connVars, otherVars>>

ProcWriteStdout == WriteStdout(OutBytes)

\* the process writes one of the bytes B to its stderr; with combine_stderr
\* set the channel feeds stderr data into in_buffer
WriteStderr(B) ==
    /\ ChannelOpen
    /\ Len(sentOut) + Len(sentErr) < MaxBytes
    /\ \E b \in B :
          IF combine
          THEN sentOut' = Append(sentOut, b) /\ UNCHANGED sentErr
          ELSE sentErr' = Append(sentErr, b) /\ UNCHANGED sentOut
    /\ Arrives
    /\ UNCHANGED <<pc, params, timeVars, did_read, has_stdout, exited,
                   exit_status, combine, chan_timeout, chan_closed, stdoutVars, stderrVars,
                   exception, exit_code, polledErr, connVars, otherVars>>

ProcWriteStderr == WriteStderr(ErrBytes)

ProcExit ==
    /\ ChannelOpen
    /\ ~exited
    /\ exited' = TRUE
    /\ exit_status' \in ExitStatuses
    /\ UNCHANGED <<pc, params, timeVars, did_read, has_stdout, sentOut, sentErr,
                   inTime, combine, chan_timeout, chan_closed, stdoutVars,
                   stderrVars, exception, exit_code, polledErr,
                   connVars, otherVars>>

\* the server closes the channel once the process has exited
ProcClose ==
    /\ ChannelOpen
    /\ exited
    /\ chan_closed' = TRUE
    /\ chan_releases' = chan_releases + 1
    /\ open_channels' = open_channels - 1
    /\ UNCHANGED <<pc, params, timeVars, did_read, has_stdout, procVars, combine, chan_timeout,
                   stdoutVars, stderrVars, exception, exit_code, polledErr,
                   connVars, keyVars, targetVars, scopeVars, error>>

\* the server closes the channel without an exit status (the process was
\* killed by a signal): the close makes exit_status_ready() true, and
\* recv_exit_status returns the -1 the channel starts with
ProcCloseNoStatus ==
    /\ ChannelOpen
    /\ ~exited
    /\ exited' = TRUE
    /\ exit_status' = NoStatus
    /\ chan_closed' = TRUE
    /\ chan_releases' = chan_releases + 1
    /\ open_channels' = open_channels - 1
    /\ UNCHANGED <<pc, params, timeVars, did_read, has_stdout, sentOut, sentErr,
                   inTime, combine, chan_timeout, stdoutVars, stderrVars, exception,
                   exit_code, polledErr, connVars, keyVars, targetVars, scopeVars, error>>

(* The call. *)
\* lines 153-154: the command is wrapped and exec_command opens the channel
\* and sets the channel's timeout to the start timeout
ExecCommand ==
    /\ pc = "exec"
    /\ open_channels' = open_channels + 1
    /\ chan_timeout' = timeout
    /\ pc' = "configure"
    /\ UNCHANGED <<params, timeVars, did_read, has_stdout, procVars, combine,
                   chan_closed, stdoutVars, stderrVars, exception, exit_code,
                   polledErr, connVars, keyVars, targetVars, scopeVars, error, chan_releases>>

\* an open failure that is handled like a failure of the capture loop
AfterOpenFailureCaught == "except"

\* line 154 is inside no try: what exec_command raises leaves the call
AfterOpenFailure == "call_raised"

\* line 154: exec_command raises; nothing of lines 156-172 runs and the
\* exception leaves execute_command_output
ExecCommandFails ==
    /\ pc = "exec"
    /\ error' = OpenFailure
    /\ pc' = AfterOpenFailure
    /\ UNCHANGED <<params, timeVars, did_read, has_stdout, procVars, combine, chan_timeout,
                   chan_closed, stdoutVars, stderrVars, exception, exit_code,
                   polledErr, connVars, keyVars, targetVars, scopeVars, chan_releases,
                   open_channels>>

\* a channel that merges stderr whatever the capture mode
CombineAlways(separate) == TRUE

\* a channel that never merges stderr
CombineNever(separate) == FALSE

\* the argument of channel.set_combine_stderr
CombineFlag(separate) == ~separate

\* a capture that the start timeout cuts short
StartBoundsCapture(start, maxexec) == Min(start, maxexec)

\* lines 156-162 and 238: the time the capture loop is given is
\* max_exec_time; the start timeout is not handed to it
CaptureBudget(start, maxexec) == maxexec

\* lines 230-244: set_combine_stderr (which moves what in_stderr_buffer
\* holds into in_buffer when it turns merging on), the deadline, the buffers
Configure ==
    /\ pc = "configure"
    /\ combine' = CombineFlag(separate_stderr)
    /\ IF combine' /\ ~combine
       THEN sentOut' = sentOut \o sentErr /\ sentErr' = <<>>
       ELSE UNCHANGED <<sentOut, sentErr>>
    /\ deadline' = clock + CaptureBudget(timeout, max_exec_time)
    /\ chan_timeout' = PollSlice
    /\ stdout_lines' = <<>> /\ stderr_lines' = <<>>
    /\ stdout_partial' = <<>> /\ stderr_partial' = <<>>
    /\ pc' = "top"
    /\ UNCHANGED <<params, clock, now, did_read, has_stdout, exited,
                   exit_status, inTime, chan_closed, nOut, nReads,
                   textOut, nErr, textErr, exception, exit_code,
                   polledErr, connVars, otherVars>>

\* what leaves _read_output_with_timeout when a call of lines 230-239 raises
ConfigureFailure == <<"Exception", "set_combine_stderr">>

\* lines 230-239 are outside the try of line 245, and the call of line 156
\* is outside the try of line 164: an exception raised while the channel is
\* configured leaves execute_command_output at once
ConfigureFails ==
    /\ pc = "configure"
    /\ error' = ConfigureFailure
    /\ pc' = "call_raised"
    /\ UNCHANGED <<params, timeVars, did_read, has_stdout, procVars, combine, chan_timeout,
                   chan_closed, stdoutVars, stderrVars, exception, exit_code,
                   polledErr, connVars, keyVars, targetVars, scopeVars, chan_releases,
                   open_channels>>

\* a deadline check that never fires
DeadlineNever(n, d) == FALSE

\* "now > deadline"
DeadlineExpired(n, d) == n > d

\* lines 246-251: the clock is read (the non-blocking calls of the last
\* iteration took up to OpCost) and compared with the deadline
LoopTop ==
    /\ pc = "top"
    /\ \E d \in 0..OpCost : clock + d <= MaxClock /\ clock' = clock + d
    /\ now' = clock'
    /\ IF DeadlineExpired(now', deadline)
       THEN pc' = "except" /\ exception' = "TimeoutError" /\ UNCHANGED did_read
       ELSE pc' = "poll_out" /\ did_read' = FALSE /\ UNCHANGED exception
    /\ UNCHANGED <<params, deadline, has_stdout, procVars, combine, chan_timeout,
                   chan_closed, stdoutVars, stderrVars, exit_code,
                   polledErr, connVars, otherVars>>

\* lines 253-260: stdout is polled and at most one chunk is read
PollStdout ==
    /\ pc = "poll_out"
    /\ IF RecvReady
       THEN FeedStdout(Min(RecvMax, Len(sentOut) - nOut)) /\ did_read' = TRUE
       ELSE UNCHANGED <<stdoutVars, did_read>>
    /\ pc' = "poll_err"
    /\ UNCHANGED <<params, timeVars, has_stdout, procVars, combine, chan_timeout, chan_closed,
                   stderrVars, exception, exit_code, polledErr,
                   connVars, otherVars>>

\* a reassembly of stderr that carries the pending fragment of stdout
FeedStderrShared(k) ==
    LET data == SubSeq(sentErr, nErr + 1, nErr + k)
        r == IterChannelLinesFromBytes(data, stdout_partial)
    IN  /\ stderr_lines' = stderr_lines \o r.lines
        /\ stderr_partial' = r.partial
        /\ nErr' = nErr + k
        /\ textErr' = textErr \o Decode(data)

\* one chunk of k bytes read from in_stderr_buffer goes through the reassembler
FeedStderr(k) ==
    LET data == SubSeq(sentErr, nErr + 1, nErr + k)
        r == IterChannelLinesFromBytes(data, stderr_partial)
    IN  /\ stderr_lines' = stderr_lines \o r.lines
        /\ stderr_partial' = r.partial
        /\ nErr' = nErr + k
        /\ textErr' = textErr \o Decode(data)

\* an iteration that goes on to the exit-status check whatever it read
AfterPollsNoContinue(read) == "exit_check"

\* lines 271-272: "if did_read: continue"
AfterPolls(read) == IF read THEN "top" ELSE "exit_check"

\* lines 262-272: stderr is polled only in separate mode; an iteration that
\* read anything goes back to the top
PollStderr ==
    /\ pc = "poll_err"
    /\ polledErr' = (polledErr \/ separate_stderr)
    /\ IF separate_stderr /\ RecvStderrReady
       THEN FeedStderr(Min(RecvMax, Len(sentErr) - nErr)) /\ pc' = AfterPolls(TRUE)
       ELSE UNCHANGED stderrVars /\ pc' = AfterPolls(did_read)
    /\ did_read' = FALSE
    /\ UNCHANGED <<params, timeVars, has_stdout, procVars, combine, chan_timeout, chan_closed,
                   stdoutVars, exception, exit_code, connVars, otherVars>>

\* line 274: channel.exit_status_ready()
ExitCheck ==
    /\ pc = "exit_check"
    /\ pc' = IF exited THEN "drain_wait" ELSE "idle_wait"
    /\ UNCHANGED <<params, timeVars, did_read, has_stdout, procVars, combine, chan_timeout,
                   chan_closed, stdoutVars, stderrVars, exception, exit_code, polledErr, connVars, otherVars>>

\* a post-exit wait of the full slice, whatever remains
WaitAfterExitFixed(remaining) == DrainSlice

\* "0 if remaining <= 0 else min(0.1, remaining)"
WaitAfterExit(remaining) == IF remaining <= 0 THEN 0 ELSE Min(DrainSlice, remaining)

\* lines 278-280: the bounded readiness wait after the exit status; select
\* returns when the channel is readable or the time is up, and raises where
\* the channel is not selectable
DrainWait ==
    /\ pc = "drain_wait"
    /\ LET wait == WaitAfterExit(deadline - now)
       IN  IF selectable
           THEN /\ SelectReturns(wait)
                /\ pc' = "recheck_out"
                /\ UNCHANGED exception
           ELSE /\ pc' = "except" /\ exception' = "ValueError"
                /\ UNCHANGED clock
    /\ UNCHANGED <<params, now, deadline, did_read, has_stdout, procVars, combine, chan_timeout,
                   chan_closed, stdoutVars, stderrVars, exit_code, polledErr,
                   connVars, otherVars>>

\* line 281: has_stdout = channel.recv_ready()
RecheckStdout ==
    /\ pc = "recheck_out"
    /\ has_stdout' = RecvReady
    /\ pc' = "recheck_err"
    /\ UNCHANGED <<params, timeVars, did_read, procVars, combine, chan_timeout, chan_closed,
                   stdoutVars, stderrVars, exception, exit_code,
                   polledErr, connVars, otherVars>>

\* a re-check that looks at stdout only
StillPendingStdoutOnly(ho, he) == ho

\* "if has_stdout or has_stderr: continue"
StillPending(ho, he) == ho \/ he

\* lines 282-290: has_stderr, then another iteration or the end of the loop
RecheckStderr ==
    /\ pc = "recheck_err"
    /\ polledErr' = (polledErr \/ separate_stderr)
    /\ pc' = IF StillPending(has_stdout, separate_stderr /\ RecvStderrReady)
             THEN "top" ELSE "flush"
    /\ has_stdout' = FALSE
    /\ UNCHANGED <<params, timeVars, did_read, procVars, combine, chan_timeout,
                   chan_closed, stdoutVars, stderrVars, exception, exit_code, connVars, otherVars>>

\* a readiness wait of a fixed second, whatever remains
IdleWaitUnsliced(remaining) == 2 * PollSlice

\* "wait = min(0.5, remaining)"
IdleWaitTime(remaining) == Min(PollSlice, remaining)

\* "time.sleep(min(0.05, remaining))"
FallbackSleepTime(remaining) == Min(FallbackSleep, remaining)

\* lines 294-302: no time left: back to the top; else the idle readiness
\* wait, or the fallback sleep where select raises
IdleWait ==
    /\ pc = "idle_wait"
    /\ LET remaining == deadline - now
       IN  IF remaining <= 0
           THEN UNCHANGED clock
           ELSE IF selectable
                THEN SelectReturns(IdleWaitTime(remaining))
                ELSE clock' = clock + FallbackSleepTime(remaining)
    /\ pc' = "top"
    /\ UNCHANGED <<params, now, deadline, did_read, has_stdout, procVars, combine, chan_timeout,
                   chan_closed, stdoutVars, stderrVars, exception, exit_code, polledErr, connVars, otherVars>>

\* lines 303-308: the loop ended with an exception
Except ==
    /\ pc = "except"
    /\ stdout_lines' = FlushOnException(stdout_lines, stdout_partial)
    /\ stderr_lines' = FlushOnException(stderr_lines, stderr_partial)
    /\ pc' = "result"
    /\ UNCHANGED <<params, timeVars, did_read, has_stdout, procVars, combine, chan_timeout,
                   chan_closed, stdout_partial, nOut, nReads, textOut,
                   stderr_partial, nErr, textErr, exception, exit_code, polledErr, connVars, otherVars>>

\* lines 310-314: the loop ended with break
FlushNormal ==
    /\ pc = "flush"
    /\ stdout_lines' = FlushPartial(stdout_lines, stdout_partial)
    /\ stderr_lines' = FlushPartial(stderr_lines, stderr_partial)
    /\ exception' = ""
    /\ pc' = "result"
    /\ UNCHANGED <<params, timeVars, did_read, has_stdout, procVars, combine, chan_timeout,
                   chan_closed, stdout_partial, nOut, nReads, textOut,
                   stderr_partial, nErr, textErr, exit_code,
                   polledErr, connVars, otherVars>>

\* a result that keeps the sentinel for the deadline
ExitCodeTimeoutOnly(exc, ready, status) ==
    IF exc = "TimeoutError" THEN TimeoutSentinel ELSE status

\* a result that prefers the exit status whenever the process has exited
ExitCodeIfExited(exc, ready, status) ==
    IF exc # "" /\ ~ready THEN TimeoutSentinel ELSE status

\* lines 165-168: -1 on an exception, else the channel's exit status
ExitCodeOf(exc, ready, status) ==
    IF exc # "" THEN TimeoutSentinel ELSE status

\* line 171: "if not channel.closed"
CloseIfOpen(closed) == ~closed

\* channel.close(): releases the channel unless it is closed already
ChannelClose ==
    /\ chan_closed' = TRUE
    /\ chan_releases' = IF chan_closed THEN chan_releases ELSE chan_releases + 1
    /\ open_channels' = IF chan_closed THEN open_channels ELSE open_channels - 1

\* lines 169-172: the finally of execute_command_output
Finally ==
    IF CloseIfOpen(chan_closed)
    THEN ChannelClose
    ELSE UNCHANGED <<chan_closed, chan_releases, open_channels>>

\* lines 164-172: the result is built (recv_exit_status waits for the exit
\* status) and the channel is closed if it is not closed yet
Result ==
    /\ pc = "result"
    /\ exception = "" => exited
    /\ exit_code' = ExitCodeOf(exception, exited, exit_status)
    /\ Finally
    /\ pc' = "returned"
    /\ UNCHANGED <<params, timeVars, did_read, has_stdout, procVars, combine, chan_timeout,
                   stdoutVars, stderrVars, exception, polledErr,
                   connVars, keyVars, targetVars, scopeVars, error>>

\* what leaves execute_command_output when recv_exit_status raises
StatusFailure == <<"Exception", "recv_exit_status">>

\* lines 168-172: recv_exit_status, called when the loop ended normally,
\* raises; the finally runs and the exception leaves the call
ResultFails ==
    /\ pc = "result"
    /\ exception = ""
    /\ error' = StatusFailure
    /\ Finally
    /\ pc' = "call_raised"
    /\ UNCHANGED <<params, timeVars, did_read, has_stdout, procVars, combine, chan_timeout,
                   stdoutVars, stderrVars, exception, exit_code, polledErr,
                   connVars, keyVars, targetVars, scopeVars>>

Next ==
    \/ ProcWriteStdout \/ ProcWriteStderr \/ ProcExit \/ ProcCloseNoStatus
    \/ ExecCommand \/ ExecCommandFails \/ Configure \/ ConfigureFails
    \/ LoopTop \/ PollStdout \/ PollStderr
    \/ ExitCheck \/ DrainWait \/ RecheckStdout \/ RecheckStderr \/ IdleWait
    \/ Except \/ FlushNormal \/ Result \/ ResultFails

Spec == Init /\ [][Next]_vars

\* the characters of a list of lines
Chars(lines) == {Concat(lines)[i] : i \in 1..Len(Concat(lines))}

\* the steps of one loop iteration after its deadline check
LoopBody == {"poll_out", "poll_err", "exit_check", "drain_wait", "recheck_out",
             "recheck_err", "idle_wait", "flush"}

\* C2: a deadline check that finds the deadline passed ends the call with
\* the sentinel -1, never with the channel's exit status, whether or not the
\* remote process has exited; no step of the loop body runs, and the loop
\* never ends normally, on a check that found the deadline passed.
C2_TimeoutSentinel ==
    /\ pc \in LoopBody => now <= deadline
    /\ (pc = "returned" /\ now > deadline) =>
          (exit_code = TimeoutSentinel /\ exception = "TimeoutError")
    /\ (pc = "returned" /\ exception = "") => now <= deadline

\* reached: the process has exited with status 7 and the call still returns -1
C2_Witness ==
    /\ pc = "returned" /\ now > deadline
    /\ exited /\ exit_status = 7
    /\ exit_code = TimeoutSentinel

\* C3 as stated: on timeout every byte that reached the channel before the
\* deadline is in the returned lines, so none of them is left unread.
C3_AllArrivedReturned ==
    (pc = "returned" /\ exception = "TimeoutError") => nOut + nErr >= inTime

\* C3 as amended: on timeout the returned lines of each stream are exactly
\* the decoded text of the chunks read from it before the deadline check
\* failed, the pending fragment included as last entry.
C3_ReadOutputReturned ==
    (pc = "returned" /\ exception = "TimeoutError") =>
        /\ exit_code = TimeoutSentinel
        /\ Concat(stdout_lines) = textOut
        /\ Concat(stderr_lines) = textErr
        /\ stdout_partial # <<>> => stdout_lines[Len(stdout_lines)] = stdout_partial
        /\ stderr_partial # <<>> => stderr_lines[Len(stderr_lines)] = stderr_partial

\* reached: a timeout with a completed line and a pending fragment read
\* from stdout, and output read from stderr
C3_Witness ==
    /\ pc = "returned" /\ exception = "TimeoutError"
    /\ Len(stdout_lines) = 2 /\ stdout_partial # <<>>
    /\ stderr_lines # <<>>

\* C4: _read_output_with_timeout has returned by the deadline plus one
\* idle readiness slice, whatever the remote process does.
C4_ReturnsBySlice ==
    pc \in {"result", "returned"} => clock <= deadline + PollSlice

\* reached: the process never exits and the call returns after the deadline
C4_Witness ==
    /\ pc = "result" /\ ~exited
    /\ clock > deadline
    /\ max_exec_time > PollSlice

\* C5: in separate mode a normal completion returns the process's own exit
\* status, stdout lines made of what was read from in_buffer and stderr
\* lines made of what was read from in_stderr_buffer; nothing the process
\* wrote to stderr ("e") is in the stdout lines and nothing it wrote to
\* stdout ("a") is in the stderr lines.
C5_SeparateStreams ==
    (pc = "returned" /\ separate_stderr /\ exception = "") =>
        /\ exit_code = exit_status
        /\ Concat(stdout_lines) = textOut
        /\ Concat(stderr_lines) = textErr
        /\ 101 \notin Chars(stdout_lines)
        /\ 97 \notin Chars(stderr_lines)

\* reached: exit status 7 with "a" on stdout and "e" on stderr
C5_Witness ==
    /\ pc = "returned" /\ separate_stderr /\ exception = ""
    /\ exit_code = 7
    /\ 97 \in Chars(stdout_lines)
    /\ 101 \in Chars(stderr_lines)

\* C6: in merge mode the stderr list stays empty, the engine never polls or
\* reads stderr, what the process writes to stderr lands in in_buffer (none
\* of it stays in in_stderr_buffer once the channel is configured) and is
\* returned in the stdout lines, and a normal completion returns the
\* process's own exit status.
C6_MergedCapture ==
    ~separate_stderr =>
        /\ stderr_lines = <<>> /\ stderr_partial = <<>>
        /\ ~polledErr /\ nErr = 0
        /\ (pc \notin {"exec", "configure"} /\ error = <<>>) => sentErr = <<>>
        /\ pc = "returned" => Concat(stdout_lines) = textOut
        /\ (pc = "returned" /\ exception = "") => exit_code = exit_status

\* reached: exit status 7 with "a" and "e" both in the stdout lines
C6_Witness ==
    /\ pc = "returned" /\ ~separate_stderr /\ exception = ""
    /\ exit_code = 7 /\ stderr_lines = <<>>
    /\ 97 \in Chars(stdout_lines)
    /\ 101 \in Chars(stdout_lines)

\* C7 as stated: the returned stderr list is empty exactly in merge mode.
C7_EmptyIffMerged ==
    pc = "returned" => (stderr_lines = <<>> <=> ~separate_stderr)

\* C7 as amended: in merge mode the returned stderr list is empty; in
\* separate mode it is empty exactly when nothing was read from stderr.
C7_EmptyIfMerged ==
    pc = "returned" =>
        /\ ~separate_stderr => stderr_lines = <<>>
        /\ separate_stderr => (stderr_lines = <<>> <=> nErr = 0)

\* reached: a separate-mode result of a process that wrote to stdout only,
\* with an empty stderr list
C7_Witness ==
    /\ pc = "returned" /\ separate_stderr /\ exception = ""
    /\ stderr_lines = <<>> /\ nErr = 0
    /\ stdout_lines # <<>>

\* C9: on normal completion every byte the process wrote is in the
\* returned lines, so none is left unread in the channel, also when the
\* last output reaches the channel with or just after the exit status.
C9_NothingTruncated ==
    (pc = "returned" /\ exception = "") =>
        (nOut = Len(sentOut) /\ nErr = Len(sentErr))

\* C15: once exec_command has returned the channel, every way out of
\* execute_command_output leaves the channel closed: the return of a result
\* after normal completion or timeout, and an exception raised while the
\* channel is configured, during capture or while the exit status is read.
C15_ChannelClosedOnExit ==
    (pc \in {"returned", "call_raised"} /\ error # OpenFailure) => chan_closed

\* C17: when exec_command fails to open the channel, the exception leaves
\* execute_command_output: the capture loop never runs, there is no timeout
\* exception, no sentinel, no exit status and no line; a call that returns a
\* result, the sentinel -1 included, has opened its channel.
C17_OpenFailurePropagates ==
    /\ error = OpenFailure =>
          /\ pc = "call_raised"
          /\ exception = "" /\ exit_code # TimeoutSentinel
          /\ stdout_lines = <<>> /\ stderr_lines = <<>>
          /\ ~chan_closed /\ chan_releases = 0
    /\ pc = "returned" => error = <<>>
    /\ exit_code = TimeoutSentinel => pc = "returned"

\* reached: exec_command has raised and the call has ended with its exception
C17_Witness ==
    /\ pc = "call_raised" /\ error = OpenFailure
    /\ client = "connected"

\* the re-check finds data ready on stdout or, in separate mode, on stderr
RecheckFindsData == has_stdout \/ (separate_stderr /\ RecvStderrReady)

\* C20: the loop ends normally only from the post-exit re-check, with the
\* exit status signalled and with neither stdout nor, in separate mode,
\* stderr found ready at that re-check; a re-check that finds data ready
\* goes back to the top of the loop; a result without exception is the
\* result of a process that has exited.
C20_EndsOnlyWhenDrained ==
    /\ [](pc \in {"drain_wait", "recheck_out", "recheck_err", "flush"} => exited)
    /\ []((pc \in {"result", "returned"} /\ exception = "") => exited)
    /\ [][(pc' = "flush" /\ pc # "flush") =>
              (pc = "recheck_err" /\ exited /\ ~RecheckFindsData)]_vars
    /\ [][(pc = "recheck_err" /\ pc' # pc /\ RecheckFindsData) => pc' = "top"]_vars

\* reached: in separate mode the process has exited and the re-check finds
\* stdout empty and stderr ready
C20_Witness ==
    /\ pc = "recheck_err" /\ exited
    /\ separate_stderr /\ ~has_stdout /\ RecvStderrReady

\* C21: however the loop ends (break, deadline, failure of the post-exit
\* wait), the step that ends _read_output_with_timeout appends each stream's
\* non-empty pending fragment to that stream's lines, once and as the last
\* entry, and appends nothing for an empty fragment; the lines then hold
\* exactly the text read from the stream and do not change any more.
C21_FlushedOnce ==
    /\ []((pc \in {"result", "returned"}) =>
            /\ Concat(stdout_lines) = textOut
            /\ Concat(stderr_lines) = textErr
            /\ stdout_partial # <<>> => stdout_lines[Len(stdout_lines)] = stdout_partial
            /\ stderr_partial # <<>> => stderr_lines[Len(stderr_lines)] = stderr_partial)
    /\ [][(pc \in {"except", "flush"} /\ pc' # pc) =>
              /\ pc' = "result"
              /\ stdout_lines' = IF stdout_partial # <<>>
                                 THEN Append(stdout_lines, stdout_partial)
                                 ELSE stdout_lines
              /\ stderr_lines' = IF stderr_partial # <<>>
                                 THEN Append(stderr_lines, stderr_partial)
                                 ELSE stderr_lines]_vars
    /\ [][(pc \in {"result", "returned"}) =>
              UNCHANGED <<stdout_lines, stderr_lines>>]_vars

\* reached: the post-exit wait has failed with a completed line and a
\* pending fragment on stdout and a pending fragment on stderr, and the
\* call has returned
C21_Witness ==
    /\ pc = "returned" /\ exception = "ValueError"
    /\ Len(stdout_lines) = 2 /\ stdout_partial # <<>>
    /\ stderr_partial # <<>>

\* the positions of the capture loop, up to the flush that ends it
LoopPcs == {"top", "except"} \cup LoopBody

\* C22: at every position of the capture loop and for each stream, the
\* completed lines joined in order, followed by the pending fragment, are
\* the decoded text of the chunks read from the stream so far.
C22_StreamBuffer ==
    pc \in LoopPcs =>
        /\ Concat(stdout_lines) \o stdout_partial = textOut
        /\ Concat(stderr_lines) \o stderr_partial = textErr

\* reached: inside the loop, a line "a\n" put together from two chunks of
\* stdout while a fragment of stderr is pending
C22_Witness ==
    /\ pc \in LoopBody /\ nReads >= 2
    /\ Len(stdout_lines) = 1 /\ Len(stdout_lines[1]) = 2
    /\ stdout_partial = <<>>
    /\ stderr_partial # <<>>

\* C23: a read happens only at the two polls; after a read from stdout the
\* iteration still polls stderr, and an iteration that read from either
\* stream goes from the stderr poll straight back to the deadline check:
\* the exit-status check is reached only by an iteration that read nothing,
\* and time passes only at the top of the loop and in the two waits.
C23_ReadSkipsWaits ==
    /\ [][(nOut' > nOut) =>
              (pc = "poll_out" /\ pc' = "poll_err" /\ did_read')]_vars
    /\ [][(nErr' > nErr) => pc = "poll_err"]_vars
    /\ [][(pc = "poll_err" /\ pc' # pc /\ (did_read \/ nErr' > nErr)) =>
              (pc' = "top" /\ clock' = clock)]_vars
    /\ [][(pc' = "exit_check" /\ pc # "exit_check") =>
              (pc = "poll_err" /\ ~did_read /\ nErr' = nErr)]_vars
    /\ [][(clock' # clock) => pc \in {"top", "drain_wait", "idle_wait"}]_vars

\* reached: an iteration has read the last of stdout while the exit status
\* is ready, and is about to go back to the top
C23_Witness ==
    /\ pc = "poll_err" /\ did_read
    /\ exited /\ ~RecvReady /\ ~RecvStderrReady

\* C24: the time that remains when the loop suspends is never negative; the
\* idle readiness wait lasts at most min(0.5 s, remaining), the fallback
\* sleep that replaces it at most min(0.05 s, remaining), the post-exit
\* wait at most min(0.1 s, remaining), and none of them runs backwards.
C24_WaitsBounded ==
    /\ []((pc \in {"drain_wait", "idle_wait"}) => deadline - now >= 0)
    /\ [][(pc = "idle_wait") =>
              /\ clock' - clock \in 0..Min(PollSlice, deadline - now)
              /\ ~selectable => clock' - clock <= Min(FallbackSleep, deadline - now)]_vars
    /\ [][(pc = "drain_wait") =>
              clock' - clock \in 0..Min(DrainSlice, deadline - now)]_vars

\* reached: a readiness wait longer than the post-exit slice and shorter
\* than the idle slice has ended exactly at the deadline
C24_Witness ==
    /\ pc = "top" /\ selectable
    /\ clock = deadline
    /\ clock - now > DrainSlice /\ clock - now < PollSlice

\* the text a read has added to the history of a stream
NewText(old, new) == SubSeq(new, Len(old) + 1, Len(new))

\* C27: a read from stdout leaves the stderr lines and the stderr fragment
\* as they are and a read from stderr leaves the stdout lines and fragment
\* as they are; what a read makes of a stream's lines and fragment depends
\* on that stream's lines and fragment and on the chunk read, on nothing else.
C27_PerStreamState ==
    /\ [][(nOut' > nOut) =>
              /\ UNCHANGED <<stderr_lines, stderr_partial, nErr, textErr>>
              /\ Concat(stdout_lines') \o stdout_partial' =
                    Concat(stdout_lines) \o stdout_partial \o NewText(textOut, textOut')]_vars
    /\ [][(nErr' > nErr) =>
              /\ UNCHANGED <<stdout_lines, stdout_partial, nOut, textOut>>
              /\ Concat(stderr_lines') \o stderr_partial' =
                    Concat(stderr_lines) \o stderr_partial \o NewText(textErr, textErr')]_vars

\* reached: stdout has been read twice and stderr once, and a fragment is
\* pending on each stream
C27_Witness ==
    /\ pc \in LoopBody /\ nReads = 2 /\ nErr = 1
    /\ stdout_partial # <<>> /\ stderr_partial # <<>>

\* C30 as stated: the call returns -1 exactly when the capture loop ended
\* with an exception.
C30_SentinelIffException ==
    pc = "returned" => (exit_code = TimeoutSentinel <=> exception # "")

\* C30 as amended: a loop that ended with an exception of any kind, the
\* deadline's or another, is reported as -1 with the lines read so far; a
\* loop that ended normally is reported with the channel's exit status; and
\* -1 is returned only after an exception or when the channel's own exit
\* status is -1, the server having closed it without reporting one.
C30_SentinelOnException ==
    pc = "returned" =>
        /\ exception # "" =>
              /\ exit_code = TimeoutSentinel
              /\ Concat(stdout_lines) = textOut
              /\ Concat(stderr_lines) = textErr
        /\ exception = "" => exit_code = exit_status
        /\ exit_code = TimeoutSentinel => (exception # "" \/ exit_status = NoStatus)

\* reached: the post-exit wait has raised after output was read from a
\* process that exited with status 7, and the call has returned -1
C30_Witness ==
    /\ pc = "returned" /\ exception = "ValueError"
    /\ exited /\ exit_status = 7
    /\ exit_code = TimeoutSentinel
    /\ stdout_lines # <<>>

(***************************************************************************)
(* The call under fairness: the interpreter goes on executing the call     *)
(* while it has a step to take, and a loop that keeps coming back to its   *)
(* top does not read the same time for ever.  The remote process is under  *)
(* no obligation.                                                          *)
(***************************************************************************)
\* a step of execute_command_output
CallStep ==
    \/ ExecCommand \/ ExecCommandFails \/ Configure \/ ConfigureFails
    \/ LoopTop \/ PollStdout \/ PollStderr
    \/ ExitCheck \/ DrainWait \/ RecheckStdout \/ RecheckStderr \/ IdleWait
    \/ Except \/ FlushNormal \/ Result \/ ResultFails

\* line 247 reads a later time.time() than the iteration before
TimePasses == LoopTop /\ clock' > clock

\* max_exec_time values tried under fairness, in ticks
LiveTimes == {1, DrainSlice + 1}

InitLive ==
    /\ InitCall
    /\ separate_stderr \in BOOLEAN
    /\ max_exec_time \in LiveTimes
    /\ selectable \in BOOLEAN
    /\ timeout = MaxStart

\* a process that writes "a" to its stdout and "e" to its stderr
ProcWriteA == WriteStdout({97})
ProcWriteE == WriteStderr({101})

NextLive == ProcWriteA \/ ProcWriteE \/ ProcExit \/ CallStep

SpecLive ==
    /\ InitLive /\ [][NextLive]_vars
    /\ WF_vars(CallStep)
    /\ SF_vars(TimePasses)

\* C26: once the capture loop is entered it ends: the call reaches the
\* return of _read_output_with_timeout, with no exception, with the
\* deadline's TimeoutError or with the exception of a failed wait, whatever
\* the remote process does.
C26_LoopTerminates ==
    /\ (pc \in LoopPcs) ~> (pc = "result")
    /\ [](pc = "result" => exception \in {"", "TimeoutError", "ValueError"})
    /\ [](clock < MaxClock)

\* reached: the loop has ended by the deadline for a process that never
\* exited and wrote all it could
C26_Witness ==
    /\ pc = "result" /\ exception = "TimeoutError"
    /\ ~exited /\ Len(sentOut) + Len(sentErr) = MaxBytes

\* the positions of the loop up to its break
Polling == LoopPcs \ {"except", "flush"}

\* C25: in separate mode every iteration that passes the deadline check
\* polls stdout and then stderr and reads what it finds ready on each, and
\* data that is ready on a stream while the loop runs is read in the end,
\* unless an exception (the deadline's or a failed wait's) ends the loop.
C25_NoStarvation ==
    /\ [][(separate_stderr /\ pc = "poll_out" /\ pc' # pc) =>
              (pc' = "poll_err" /\ (RecvReady => nOut' > nOut))]_vars
    /\ [][(separate_stderr /\ pc = "poll_err" /\ pc' # pc /\ RecvStderrReady) =>
              nErr' > nErr]_vars
    /\ \A k \in 0..(MaxBytes - 1) :
          (separate_stderr /\ pc \in Polling /\ Len(sentOut) > k)
              ~> (nOut > k \/ exception # "")
    /\ \A k \in 0..(MaxBytes - 1) :
          (separate_stderr /\ pc \in Polling /\ Len(sentErr) > k)
              ~> (nErr > k \/ exception # "")

(***************************************************************************)
(* The same call made with different start timeouts, on a platform where   *)
(* the channel is selectable, for a process that writes to stdout or stays *)
(* silent.                                                                 *)
(***************************************************************************)
InitStart ==
    /\ InitCall
    /\ separate_stderr \in BOOLEAN
    /\ max_exec_time \in ExecTimes
    /\ selectable = TRUE
    /\ timeout \in StartTimeouts

NextStart ==
    \/ ProcWriteStdout \/ ProcExit
    \/ ExecCommand \/ ExecCommandFails \/ Configure \/ ConfigureFails
    \/ LoopTop \/ PollStdout \/ PollStderr
    \/ ExitCheck \/ DrainWait \/ RecheckStdout \/ RecheckStderr \/ IdleWait
    \/ Except \/ FlushNormal \/ Result \/ ResultFails

SpecStart == InitStart /\ [][NextStart]_vars

\* C28: whatever the start timeout, the capture loop runs against the
\* deadline start + max_exec_time with the channel's timeout set to 0.5 s:
\* the only exception that ends the loop is the deadline's, raised after the
\* clock has passed max_exec_time, and a loop that ends normally, however
\* long after the start timeout, returns the process's exit status and the
\* text read.  The start timeout is in effect on the channel only between
\* exec_command and the set-up of the loop.
C28_StartTimeoutNoBound ==
    /\ [](pc = "configure" => chan_timeout = timeout)
    /\ []((pc \in LoopPcs \cup {"result", "returned"}) =>
            (deadline = max_exec_time /\ chan_timeout = PollSlice))
    /\ [](exception # "" => (exception = "TimeoutError" /\ now > max_exec_time))
    /\ []((pc = "returned" /\ exception = "") =>
            (exit_code = exit_status /\ Concat(stdout_lines) = textOut))
    /\ [][timeout' = timeout]_vars

\* reached: a command that wrote nothing completes with its status 7 after
\* the start timeout and before max_exec_time have passed
C28_Witness ==
    /\ pc = "returned" /\ exception = ""
    /\ sentOut = <<>> /\ exit_code = 7
    /\ clock > timeout /\ clock < max_exec_time

(***************************************************************************)
(* Ssh.__enter__ and Ssh.__exit__: the connect retry loop, one step per    *)
(* connect attempt (the server decides whether it succeeds), and the close *)
(* at the end of the with block.                                           *)
(***************************************************************************)
\* retry intervals tried, in seconds
RetryIntervals == {1, 2}

\* target addresses tried
TargetIps == {TargetIp, "10.0.0.5"}

lineVars == <<sentOut, nOut, nReads, stdout_lines, stdout_partial, textOut>>

InitConn ==
    /\ pc = "enter"
    /\ retries \in 0..MaxRetries
    /\ retry_interval \in RetryIntervals
    /\ target_ip \in TargetIps
    /\ slept = 0 /\ attempts = 0 /\ failures = 0 /\ sleeps = 0
    /\ client = "None"
    /\ sentOut = <<>> /\ nOut = 0 /\ nReads = 0
    /\ stdout_lines = <<>> /\ stdout_partial = <<>> /\ textOut = <<>>
    /\ CaptureIdle /\ OtherIdle

\* lines 81-84: a new client is created and the host key policy set
EnterStart ==
    /\ pc = "enter"
    /\ client' = "new"
    /\ pc' = "loop"
    /\ UNCHANGED <<retries, retry_interval, slept, attempts, failures, sleeps,
                   lineVars, captureRest, target_ip, otherVars>>

\* a loop without the break: it goes on to the next attempt
AfterConnectNoBreak == "loop"

\* line 99: "break" leaves the loop, and line 106 returns self
AfterConnect == "entered"

\* lines 86-99: an attempt that connects
ConnectOk ==
    /\ pc = "loop"
    /\ attempts < retries
    /\ attempts' = attempts + 1
    /\ client' = "connected"
    /\ pc' = AfterConnect
    /\ UNCHANGED <<retries, retry_interval, slept, failures, sleeps, lineVars,
                   captureRest, target_ip, otherVars>>

\* lines 86-88 and 100-101: an attempt that raises
ConnectFail ==
    /\ pc = "loop"
    /\ attempts < retries
    /\ attempts' = attempts + 1
    /\ failures' = failures + 1
    /\ pc' = "sleep"
    /\ UNCHANGED <<retries, retry_interval, slept, sleeps, client, lineVars,
                   captureRest, target_ip, otherVars>>

\* line 102: time.sleep(self._retry_interval), then the next iteration
RetrySleep ==
    /\ pc = "sleep"
    /\ sleeps' = sleeps + 1
    /\ slept' = slept + retry_interval
    /\ pc' = "loop"
    /\ UNCHANGED <<retries, retry_interval, attempts, failures, client, lineVars,
                   captureRest, target_ip, otherVars>>

\* a loop that gives up while one attempt remains
LoopExhaustedEarly(a, r) == a >= r - 1

\* "for _ in range(self._retries)" has no iteration left
LoopExhausted(a, r) == a >= r

\* line 104: Exception(f"SSH connection to {self._target_ip} failed")
ConnectionFailed(ip) == <<"Exception", "SSH connection to", ip, "failed">>

\* lines 103-104: the loop ran out of attempts: the else branch raises
Exhausted ==
    /\ pc = "loop"
    /\ LoopExhausted(attempts, retries)
    /\ error' = ConnectionFailed(target_ip)
    /\ pc' = "raised"
    /\ UNCHANGED <<connVars, lineVars, captureRest, keyVars, targetVars, scopeVars,
                   chan_releases, open_channels>>

\* an __exit__ that closes only when the body ended without exception
ShouldCloseOnSuccess(c, err) == c # "None" /\ err = <<>>

\* line 109: "if self._ssh is not None"
ShouldClose(c, err) == c # "None"

\* a close that releases the transport each time it is called
ReleasesAgain(c, n) == n + 1

\* line 111: SSHClient.close() releases the transport if the client holds
\* one and does nothing on a client that holds none
ReleasesAfterClose(c, n) == IF c = "connected" THEN n + 1 ELSE n

\* lines 109-113: "if self._ssh is not None: self._ssh.close()";
\* SSHClient.close() releases the transport if the client holds one, and
\* the transport closes the channels that are still open on it
ExitBody ==
    /\ IF ShouldClose(client, error)
       THEN /\ client' = "closed"
            /\ releases' = ReleasesAfterClose(client, releases)
            /\ open_channels' = 0
       ELSE UNCHANGED <<client, releases, open_channels>>
    /\ exit_calls' = exit_calls + 1

\* lines 108-113: __exit__ closes the client at the end of the with block
ExitClose ==
    /\ pc = "entered"
    /\ ExitBody
    /\ pc' = "exited"
    /\ UNCHANGED <<retries, retry_interval, slept, attempts, failures, sleeps,
                   lineVars, captureRest, target_ip, keyVars, targetVars, ncmds, failed,
                   via, cmd_result, error, chan_releases>>

NextConn ==
    \/ EnterStart \/ ConnectOk \/ ConnectFail \/ RetrySleep \/ Exhausted
    \/ ExitClose

SpecConn == InitConn /\ [][NextConn]_vars

\* C10: __enter__ makes at most n_retries connect attempts; an attempt is
\* made only while every attempt before it has failed, each failure being
\* followed by one retry sleep; once an attempt has connected there is no
\* further attempt and no further sleep.
C10_StopsAtFirstSuccess ==
    /\ attempts <= retries
    /\ pc \in {"loop", "raised"} => (failures = attempts /\ sleeps = failures)
    /\ pc = "sleep" => (failures = attempts /\ sleeps = failures - 1)
    /\ pc = "loop" => client = "new"
    /\ client \in {"connected", "closed"} =>
          /\ pc \in {"entered", "exited"}
          /\ attempts = failures + 1
          /\ sleeps = failures
          /\ slept = failures * retry_interval

\* reached: the second of three allowed attempts connected, after one
\* failure and one sleep
C10_Witness ==
    /\ pc = "entered" /\ client = "connected"
    /\ retries = 3 /\ attempts = 2 /\ failures = 1 /\ sleeps = 1

\* C11: __enter__ raises the connection-failed error only when each of the
\* n_retries attempts has been made and has failed; the error names the
\* target address; no client has connected and nothing is handed to the
\* body; while attempts remain no error is raised.
C11_RaisesWhenExhausted ==
    /\ pc = "raised" =>
          /\ error = ConnectionFailed(target_ip)
          /\ attempts = retries /\ failures = retries
          /\ client = "new"
    /\ error # <<>> => pc = "raised"
    /\ pc \in {"entered", "exited"} => (error = <<>> /\ failures < retries)

\* reached: three attempts allowed, three made and failed, and the error
\* names the second address
C11_Witness ==
    /\ pc = "raised"
    /\ retries = 3 /\ failures = 3
    /\ error = <<"Exception", "SSH connection to", "10.0.0.5", "failed">>

\* line 116: get_paramiko_client returns self._ssh
GetParamikoClient == client

\* the caller holds the Ssh object and no method of it is running
CallerRuns == pc \in {"enter", "raised", "entered", "exited"}

\* C12: whenever the caller can call get_paramiko_client, it returns a
\* client whose connect succeeded (connected, or closed since) or, before
\* the scope is entered, no client at all: never a client that has not
\* connected.
C12_NoUnconnectedClient ==
    CallerRuns => GetParamikoClient \in {"None", "connected", "closed"}

(***************************************************************************)
(* One with block on an Ssh object: __enter__, a body that runs up to      *)
(* MaxCommands commands through execute_command_output or execute_command, *)
(* catches or lets pass what they raise and may raise itself, and          *)
(* __exit__.  The remote commands of this specification write no output.   *)
(***************************************************************************)
InitSession ==
    /\ pc = "enter"
    /\ retries \in 1..2
    /\ retry_interval = 1
    /\ target_ip = TargetIp
    /\ slept = 0 /\ attempts = 0 /\ failures = 0 /\ sleeps = 0
    /\ client = "None"
    /\ separate_stderr = TRUE /\ max_exec_time = 0 /\ timeout = MaxStart
    /\ selectable \in BOOLEAN
    /\ clock = 0 /\ now = 0 /\ deadline = 0
    /\ did_read = FALSE /\ has_stdout = FALSE
    /\ sentOut = <<>> /\ sentErr = <<>> /\ nOut = 0 /\ nErr = 0
    /\ combine = FALSE /\ chan_timeout = 0
    /\ exited = FALSE /\ exit_status = 0
    /\ chan_closed = FALSE
    /\ stdout_lines = <<>> /\ stderr_lines = <<>>
    /\ stdout_partial = <<>> /\ stderr_partial = <<>>
    /\ exception = "" /\ exit_code = 0
    /\ textOut = <<>> /\ textErr = <<>>
    /\ inTime = 0
    /\ polledErr = FALSE /\ nReads = 0
    /\ OtherIdle

\* the locals of a call that has not started or is over
LocalsIdle ==
    /\ clock' = 0 /\ now' = 0 /\ deadline' = 0
    /\ did_read' = FALSE /\ has_stdout' = FALSE
    /\ sentOut' = <<>> /\ sentErr' = <<>> /\ nOut' = 0 /\ nErr' = 0
    /\ combine' = FALSE /\ chan_timeout' = 0
    /\ exited' = FALSE /\ exit_status' = 0
    /\ stdout_lines' = <<>> /\ stderr_lines' = <<>>
    /\ stdout_partial' = <<>> /\ stderr_partial' = <<>>
    /\ exception' = "" /\ exit_code' = 0
    /\ textOut' = <<>> /\ textErr' = <<>>
    /\ inTime' = 0
    /\ polledErr' = FALSE /\ nReads' = 0

localVars == <<timeVars, did_read, has_stdout, procVars, combine, chan_timeout, stdoutVars,
               stderrVars, exception, exit_code, polledErr>>

\* a call that goes on with the channel of the command before
ReuseChannel(closed) == closed

\* line 154: exec_command opens a new channel for each call
NewChannelClosed(closed) == FALSE

\* the two execute calls
ExecuteCalls == {"execute_command_output", "execute_command"}

\* lines 178-180: execute_command passes cmd, timeout, max_exec_time,
\* logger_in and verbose on, so that separate_stderr keeps its default
SeparateChoices(call) ==
    IF call = "execute_command" THEN {TRUE} ELSE BOOLEAN

\* the body calls execute_command_output (lines 118-126) or
\* execute_command (line 174); time is counted from the start of the call
BodyCall ==
    /\ pc = "entered"
    /\ error = <<>>
    /\ ncmds < MaxCommands
    /\ ncmds' = ncmds + 1
    /\ via' \in ExecuteCalls
    /\ separate_stderr' \in SeparateChoices(via')
    /\ max_exec_time' \in ExecTimes
    /\ chan_closed' = NewChannelClosed(chan_closed)
    /\ chan_releases' = 0
    /\ cmd_result' = 0
    /\ pc' = "exec"
    /\ UNCHANGED <<selectable, timeout, localVars, connVars, keyVars, targetVars, releases,
                   exit_calls, failed, error, open_channels>>

\* a convenience call that reports success or failure only
ExecuteCommandFlag(code) == IF code = 0 THEN 0 ELSE 1

\* line 189: "return exit_code"
ExecuteCommandResult(code) == code

\* lines 178-189: execute_command takes the exit code out of the tuple,
\* logs on a nonzero code and returns it
ExecuteCommandReturn ==
    /\ pc = "returned"
    /\ via = "execute_command"
    /\ cmd_result' = ExecuteCommandResult(exit_code)
    /\ pc' = "cmd_returned"
    /\ UNCHANGED <<params, localVars, chan_closed, chan_releases, open_channels, connVars,
                   keyVars, targetVars, releases, exit_calls, ncmds, failed, via, error>>

\* how the body sees a command that returned code
FailureKinds(code) ==
    IF code = TimeoutSentinel THEN {"timeout"}
    ELSE IF code # 0 THEN {"nonzero"} ELSE {}

\* the call returns to the body; its locals are gone
CallReturns ==
    /\ \/ pc = "returned" /\ via = "execute_command_output"
       \/ pc = "cmd_returned"
    /\ failed' = failed \cup FailureKinds(exit_code)
    /\ LocalsIdle
    /\ pc' = "entered"
    /\ UNCHANGED <<params, chan_closed, chan_releases, open_channels, connVars, keyVars, targetVars,
                   releases, exit_calls, ncmds, via, cmd_result, error>>

\* the call raises into the body (execute_command lets pass what
\* execute_command_output raises); its locals are gone
CallRaises ==
    /\ pc = "call_raised"
    /\ failed' = failed \cup (IF error = OpenFailure THEN {"open"} ELSE {"raise"})
    /\ LocalsIdle
    /\ pc' = "entered"
    /\ UNCHANGED <<params, chan_closed, chan_releases, open_channels, connVars, keyVars, targetVars,
                   releases, exit_calls, ncmds, via, cmd_result, error>>

\* the body handles what a command raised and goes on
BodyCatches ==
    /\ pc = "entered"
    /\ error \in {OpenFailure, ConfigureFailure, StatusFailure}
    /\ error' = <<>>
    /\ UNCHANGED <<pc, params, localVars, chan_closed, chan_releases, open_channels, connVars,
                   keyVars, targetVars, scopeVars>>

\* what a statement of the body itself raises
BodyFailure == <<"Exception", "body">>

\* a statement of the body raises
BodyRaise ==
    /\ pc = "entered"
    /\ error = <<>>
    /\ error' = BodyFailure
    /\ UNCHANGED <<pc, params, localVars, chan_closed, chan_releases, open_channels, connVars,
                   keyVars, targetVars, scopeVars>>

\* __exit__ is called again on the Ssh object
ExitAgain ==
    /\ pc = "exited"
    /\ exit_calls < MaxExits
    /\ ExitBody
    /\ UNCHANGED <<pc, retries, retry_interval, slept, attempts, failures, sleeps,
                   lineVars, captureRest, target_ip, keyVars, targetVars, ncmds, failed,
                   via, cmd_result, error, chan_releases>>

NextSession ==
    \/ EnterStart \/ ConnectOk \/ ConnectFail \/ RetrySleep \/ Exhausted
    \/ BodyCall \/ ExecuteCommandReturn \/ CallReturns \/ CallRaises
    \/ BodyCatches \/ BodyRaise
    \/ ExitClose \/ ExitAgain
    \/ ProcExit \/ ProcClose \/ ProcCloseNoStatus
    \/ ExecCommand \/ ExecCommandFails \/ Configure \/ ConfigureFails
    \/ LoopTop \/ PollStdout \/ PollStderr
    \/ ExitCheck \/ DrainWait \/ RecheckStdout \/ RecheckStderr \/ IdleWait
    \/ Except \/ FlushNormal \/ Result \/ ResultFails

SpecSession == InitSession /\ [][NextSession]_vars

\* C13: the with block is left only through __exit__, which closes the
\* connected client: after the body has ended normally, after commands that
\* timed out, returned nonzero or raised, and after the body has raised, in
\* which case the exception is still raised after the close.
C13_ClosedOnEveryExit ==
    /\ [](pc = "exited" => (client = "closed" /\ releases = 1))
    /\ [][(pc = "entered" /\ pc' \notin {"entered", "exec"}) =>
              (pc' = "exited" /\ client = "connected" /\ client' = "closed"
               /\ error' = error)]_vars

\* reached: a command has timed out, the body has raised later, and the
\* session is closed with the exception still on its way to the caller
C13_Witness ==
    /\ pc = "exited" /\ client = "closed"
    /\ "timeout" \in failed
    /\ error = BodyFailure

CallPcs == ChannelPcs \cup {"exec", "cmd_returned"}

\* C18: no step of execute_command_output or execute_command closes or
\* replaces the session's client, whatever the outcome of the command; each
\* call starts on a channel of its own that is open and unreleased; and a
\* command called after commands that timed out, returned nonzero and
\* failed to open their channel can complete normally.
C18_SessionSurvivesCommand ==
    /\ [](pc \in CallPcs => (client = "connected" /\ releases = 0))
    /\ [](pc = "exec" => (~chan_closed /\ chan_releases = 0 /\ ~exited))
    /\ [][(pc \in CallPcs) => (client' = client /\ releases' = releases)]_vars

\* reached: the fourth command of a session completes with status 0 after
\* a timeout, a nonzero status and a channel open failure
C18_Witness ==
    /\ pc = "returned" /\ exception = "" /\ exit_code = 0
    /\ ncmds = 4
    /\ failed = {"timeout", "nonzero", "open"}
    /\ client = "connected"

\* C19: execute_command returns the first component of what
\* execute_command_output returned for the same execution: the exit status
\* of the process after a normal completion, the sentinel -1 after a
\* timeout.
C19_ConvenienceSameStatus ==
    pc = "cmd_returned" =>
        /\ cmd_result = exit_code
        /\ exception = "" => cmd_result = exit_status
        /\ exception # "" => cmd_result = TimeoutSentinel

\* reached: execute_command returns -1 for a command that timed out after
\* the process had exited with status 7
C19_Witness ==
    /\ pc = "cmd_returned" /\ via = "execute_command"
    /\ exception = "TimeoutError" /\ exited /\ exit_status = 7
    /\ cmd_result = TimeoutSentinel

\* C29: every call opens one channel of its own, which is closed when the
\* call returns, so that at most one channel opened by
\* execute_command_output is open on the session at any time.
C29_OneChannelAtATime ==
    /\ pc \in {"returned", "cmd_returned"} => chan_closed
    /\ open_channels <= 1

(***************************************************************************)
(* Ssh.__init__ with a key file, and the with block entered on the object  *)
(* it yields.  A key file is described by what each key type's             *)
(* from_private_key_file makes of it: "" if it returns a key, else the     *)
(* text of the exception it raises.                                        *)
(***************************************************************************)
\* lines 60-65: the key types, in the order they are tried
KeyLoaders == <<"RSAKey", "ECDSAKey", "Ed25519Key", "DSSKey">>

\* what a loader says of a file it cannot decode
LoadReasons == {"not a valid private key file", "unpack requires a buffer"}

\* the key files tried
KeyFiles == [1..Len(KeyLoaders) -> {""} \cup LoadReasons]

\* pkey_path values tried; None and "" load no key
KeyPaths == {"None", "", "/keys/id"}

\* the key types that decode the file
Decoding(file) == {i \in 1..Len(KeyLoaders) : file[i] = ""}

\* the first key type that decodes the file
FirstDecoding(file) ==
    CHOOSE i \in Decoding(file) : \A j \in Decoding(file) : i <= j

\* an error list that keeps the last failure only
LoadErrorsLastOnly(file, n) ==
    IF n = 0 THEN <<>> ELSE <<(<<KeyLoaders[n], file[n]>>)>>

\* line 72: load_errors after the first n loaders have failed, one
\* "name: reason" entry each
LoadErrors(file, n) == [i \in 1..n |-> <<KeyLoaders[i], file[i]>>]

\* lines 74-78: the SSHException raised when no loader is left
KeyLoadFailed(path, file) ==
    <<"SSHException", "Unsupported or invalid private key file", path,
      "Tried key types", KeyLoaders,
      "Details", LoadErrors(file, Len(KeyLoaders))>>

\* lines 59-78: _load_private_key returns the key of the first loader that
\* decodes the file, or raises
LoadPrivateKey(path, file) ==
    IF Decoding(file) # {}
    THEN [key |-> KeyLoaders[FirstDecoding(file)], error |-> <<>>]
    ELSE [key |-> "None", error |-> KeyLoadFailed(path, file)]

InitKey ==
    /\ pc = "construct"
    /\ pkey_path \in KeyPaths
    /\ keyfile \in (IF pkey_path \in {"None", ""} THEN {<<>>} ELSE KeyFiles)
    /\ pkey = "None"
    /\ retries \in 1..2
    /\ retry_interval = 1
    /\ target_ip = TargetIp
    /\ slept = 0 /\ attempts = 0 /\ failures = 0 /\ sleeps = 0
    /\ client = "None"
    /\ sentOut = <<>> /\ nOut = 0 /\ nReads = 0
    /\ stdout_lines = <<>> /\ stdout_partial = <<>> /\ textOut = <<>>
    /\ CaptureIdle
    /\ TargetIdle
    /\ ScopeIdle /\ error = <<>> /\ chan_releases = 0 /\ open_channels = 0

\* lines 48-56: the fields are set; "self._load_private_key(pkey_path) if
\* pkey_path else None"
Construct ==
    /\ pc = "construct"
    /\ IF pkey_path \in {"None", ""}
       THEN pkey' = "None" /\ pc' = "enter" /\ UNCHANGED error
       ELSE LET r == LoadPrivateKey(pkey_path, keyfile)
            IN  /\ pkey' = r.key
                /\ error' = r.error
                /\ pc' = IF r.error = <<>> THEN "enter" ELSE "ctor_raised"
    /\ UNCHANGED <<pkey_path, keyfile, connVars, lineVars, captureRest,
                   targetVars, scopeVars, chan_releases, open_channels>>

NextKey ==
    \/ Construct
    \/ EnterStart \/ ConnectOk \/ ConnectFail \/ RetrySleep \/ Exhausted
    \/ ExitClose

SpecKey == InitKey /\ [][NextKey]_vars

\* C16: _load_private_key tries RSA, ECDSA, Ed25519 and DSS in that order
\* and returns the key of the first type that decodes the file; when none
\* does, it raises one error that lists the four types in that order and,
\* for each of them, its name with its own failure reason; no key is set,
\* __init__ does not return, and no client is made and no connect tried.
C16_KeyLoaderExhaustion ==
    /\ pc = "ctor_raised" =>
          /\ pkey_path \notin {"None", ""}
          /\ \A i \in 1..4 : keyfile[i] # ""
          /\ Len(error) = 7
          /\ error[1] = "SSHException" /\ error[3] = pkey_path
          /\ error[5] = <<"RSAKey", "ECDSAKey", "Ed25519Key", "DSSKey">>
          /\ Len(error[7]) = 4
          /\ \A i \in 1..4 : error[7][i] = <<error[5][i], keyfile[i]>>
          /\ pkey = "None" /\ client = "None" /\ attempts = 0
    /\ (pc # "construct" /\ pkey_path \notin {"None", ""}
           /\ \A i \in 1..4 : keyfile[i] # "") => pc = "ctor_raised"
    /\ pkey # "None" =>
          \E i \in 1..4 :
              /\ pkey = KeyLoaders[i] /\ keyfile[i] = ""
              /\ \A j \in 1..(i - 1) : keyfile[j] # ""
    /\ (pc # "construct" /\ pkey = "None" /\ pc # "ctor_raised") =>
          pkey_path \in {"None", ""}

\* reached: no key type decodes the file, two of them for different
\* reasons, and the constructor has raised
C16_Witness ==
    /\ pc = "ctor_raised"
    /\ keyfile[1] # keyfile[4]
    /\ error[7][1] = <<"RSAKey", keyfile[1]>>
    /\ error[7][4] = <<"DSSKey", keyfile[4]>>

(***************************************************************************)
(* The capability set of a Target (score/itf/core/target/target.py): the   *)
(* constructor, add_capability, remove_capability, get_capabilities and a  *)
(* caller that changes the set get_capabilities handed out.                *)
(***************************************************************************)
\* target.py line 47: Target.REQUIRED_CAPABILITIES
REQUIRED_CAPABILITIES == {"exec", "file_transfer", "restart"}

\* target.py line 109: UnsupportedTarget.REQUIRED_CAPABILITIES
UNSUPPORTED_REQUIRED == {}

\* qemu_target.py line 23
QEMU_CAPABILITIES == {"ssh", "sftp"}

\* the capability identifiers tried
CapabilityIds == REQUIRED_CAPABILITIES \cup QEMU_CAPABILITIES

\* the "capabilities" arguments tried: <<>> is None (DockerTarget passes
\* none), <<S>> is the collection S
CtorArgs == {<<>>, <<{}>>, <<QEMU_CAPABILITIES>>, <<{"exec"}>>, <<{"ssh", "restart"}>>}

\* lines 56-57: "set(capabilities) if capabilities is not None else set()",
\* then "update(self.REQUIRED_CAPABILITIES)"
TargetInitCaps(arg, req) == (IF arg = <<>> THEN {} ELSE arg[1]) \cup req

\* line 62: has_capability
HasCapability(c) == c \in capabilities

\* line 77: get_capabilities returns a copy of the set
GetCapabilitiesResult == "copy"

\* the target is of a class other than UnsupportedTarget
Concrete == required = REQUIRED_CAPABILITIES

sshVars == <<connVars, lineVars, captureRest, keyVars, scopeVars, error,
             chan_releases, open_channels>>

InitTarget ==
    /\ pc = "target_new"
    /\ required \in {REQUIRED_CAPABILITIES, UNSUPPORTED_REQUIRED}
    /\ capabilities = {}
    /\ got = "None" /\ got_set = {}
    /\ output = <<>> /\ nexec = 0 /\ left_open = 0
    /\ ConnIdle /\ CaptureIdle /\ KeyIdle /\ ScopeIdle
    /\ sentOut = <<>> /\ nOut = 0 /\ nReads = 0
    /\ stdout_lines = <<>> /\ stdout_partial = <<>> /\ textOut = <<>>
    /\ error = <<>> /\ chan_releases = 0 /\ open_channels = 0

\* lines 49-57: Target.__init__
TargetInit ==
    /\ pc = "target_new"
    /\ \E arg \in CtorArgs : capabilities' = TargetInitCaps(arg, required)
    /\ pc' = "target"
    /\ UNCHANGED <<required, got, got_set, output, nexec, left_open, sshVars>>

\* lines 79-82: add_capability
AddCapability ==
    /\ pc = "target"
    /\ \E c \in CapabilityIds : capabilities' = capabilities \cup {c}
    /\ UNCHANGED <<pc, required, got, got_set, output, nexec, left_open, sshVars>>

\* lines 84-87: remove_capability discards the capability, whichever it is
RemoveCapability ==
    /\ pc = "target"
    /\ \E c \in CapabilityIds : capabilities' = capabilities \ {c}
    /\ UNCHANGED <<pc, required, got, got_set, output, nexec, left_open, sshVars>>

\* lines 74-77: get_capabilities
GetCapabilities ==
    /\ pc = "target"
    /\ got' = GetCapabilitiesResult
    /\ got_set' = capabilities
    /\ UNCHANGED <<pc, required, capabilities, output, nexec, left_open, sshVars>>

\* the caller adds a capability to, or discards one from, the set it got:
\* the change lands in the object that set is
CallerMutates ==
    /\ pc = "target"
    /\ got # "None"
    /\ \E c \in CapabilityIds : \E add \in BOOLEAN :
         LET change(S) == IF add THEN S \cup {c} ELSE S \ {c}
         IN  IF got = "copy"
             THEN got_set' = change(got_set) /\ UNCHANGED capabilities
             ELSE capabilities' = change(capabilities) /\ UNCHANGED got_set
    /\ UNCHANGED <<pc, required, got, output, nexec, left_open, sshVars>>

NextTarget ==
    \/ TargetInit \/ AddCapability \/ RemoveCapability \/ GetCapabilities
    \/ CallerMutates

SpecTarget == InitTarget /\ [][NextTarget]_vars

\* C31: a constructed target of a class other than UnsupportedTarget
\* reports exec, file_transfer and restart in every state, whatever it was
\* constructed with and whatever was added or removed since; and a change
\* the caller makes to the set get_capabilities returned leaves the
\* target's capabilities as they were.
C31_RequiredAlwaysReported ==
    /\ []((pc = "target" /\ Concrete) =>
            \A c \in REQUIRED_CAPABILITIES : HasCapability(c))
    /\ [][CallerMutates => capabilities' = capabilities]_vars

(***************************************************************************)
(* QemuTarget.execute (score/itf/plugins/qemu/qemu_target.py): each call   *)
(* makes an Ssh object, enters it, runs one command through                *)
(* execute_command_output, leaves the with block and returns the exit code *)
(* with the encoded output.  The caller makes up to MaxExecutes calls.     *)
(***************************************************************************)
\* qemu_target.py line 68: n_retries of QemuTarget.ssh
QemuRetries == 5

\* qemu_target.py line 69: retry_interval of QemuTarget.ssh, in seconds
QemuRetryInterval == 1

\* qemu_target.py line 43: max_exec_time = 180, scaled to the clock of the
\* model: a deadline that a command can both meet and miss
QemuMaxExecTime == DrainSlice + 1

\* qemu_target.py line 42: timeout = 30, scaled to the clock of the model
QemuStartTimeout == MaxStart

\* bytes the remote process writes to its stdout: "\n" and 0xC2, which on
\* its own decodes to U+FFFD
QemuOutBytes == {10, 194}

\* a code point str.encode() refuses: a surrogate
IsSurrogate(c) == c >= 55296 /\ c <= 57343

\* line 53: encode() raises UnicodeEncodeError on a surrogate
Encodable(text) == \A i \in 1..Len(text) : ~IsSurrogate(text[i])

\* UTF-8 of one code point
EncodeChar(c) ==
    IF c < 128 THEN <<c>>
    ELSE IF c < 2048 THEN <<192 + (c \div 64), 128 + (c % 64)>>
    ELSE IF c < 65536
         THEN <<224 + (c \div 4096), 128 + ((c \div 64) % 64), 128 + (c % 64)>>
         ELSE <<240 + (c \div 262144), 128 + ((c \div 4096) % 64),
                128 + ((c \div 64) % 64), 128 + (c % 64)>>

RECURSIVE Encode(_)
\* line 53: str.encode(), UTF-8
Encode(text) ==
    IF text = <<>> THEN <<>> ELSE EncodeChar(Head(text)) \o Encode(Tail(text))

\* what encode() raises
EncodeFailure == <<"UnicodeEncodeError", "encode">>

\* the caller holds the target and no execute call is running
QemuCallerRuns == pc \in {"qemu_idle", "qemu_returned", "qemu_raised"}

InitQemu ==
    /\ pc = "qemu_idle"
    /\ required = REQUIRED_CAPABILITIES
    /\ capabilities = TargetInitCaps(<<QEMU_CAPABILITIES>>, REQUIRED_CAPABILITIES)
    /\ got = "None" /\ got_set = {}
    /\ output = <<>> /\ nexec = 0 /\ left_open = 0
    /\ ConnIdle /\ CaptureIdle /\ ScopeIdle
    /\ pkey_path = "" /\ keyfile = <<>> /\ pkey = "None"
    /\ sentOut = <<>> /\ nOut = 0 /\ nReads = 0
    /\ stdout_lines = <<>> /\ stdout_partial = <<>> /\ textOut = <<>>
    /\ error = <<>> /\ chan_releases = 0 /\ open_channels = 0

\* lines 41-46 and 88-99: execute is called; self.ssh(timeout=timeout)
\* makes a new Ssh object with n_retries 5, retry_interval 1 and no key.
\* What the call before returned or raised is the caller's; a session that
\* call left connected stays so.
QemuExecute ==
    /\ QemuCallerRuns
    /\ nexec < MaxExecutes
    /\ nexec' = nexec + 1
    /\ left_open' = left_open + (IF client = "connected" THEN 1 ELSE 0)
    /\ retries' = QemuRetries /\ retry_interval' = QemuRetryInterval
    /\ target_ip' = TargetIp
    /\ slept' = 0 /\ attempts' = 0 /\ failures' = 0 /\ sleeps' = 0
    /\ client' = "None"
    /\ releases' = 0 /\ exit_calls' = 0 /\ ncmds' = 0
    /\ cmd_result' = 0 /\ output' = <<>> /\ error' = <<>>
    /\ LocalsIdle
    /\ pc' = "enter"
    /\ UNCHANGED <<params, chan_closed, chan_releases, open_channels, keyVars,
                   failed, via, required, capabilities, got, got_set>>

\* lines 103-104 of ssh.py, line 46: __enter__ raised, so the with block is
\* not entered, __exit__ is not called and execute raises
QemuEnterRaises ==
    /\ pc = "raised"
    /\ pc' = "qemu_raised"
    /\ UNCHANGED <<params, localVars, chan_closed, chan_releases, open_channels,
                   connVars, keyVars, targetVars, scopeVars, error>>

\* lines 47-52: the body of the with block calls execute_command_output
\* with max_exec_time and the default separate_stderr=True
QemuBodyCall ==
    /\ pc = "entered"
    /\ ncmds = 0
    /\ ncmds' = 1
    /\ via' = "execute_command_output"
    /\ separate_stderr' = TRUE
    /\ max_exec_time' = QemuMaxExecTime
    /\ timeout' = QemuStartTimeout
    /\ chan_closed' = NewChannelClosed(chan_closed)
    /\ chan_releases' = 0
    /\ pc' = "exec"
    /\ UNCHANGED <<selectable, localVars, connVars, keyVars, targetVars,
                   releases, exit_calls, failed, cmd_result, error, open_channels>>

\* a with statement that skips __exit__ when its body raised
ExitRunsOnSuccess(err) == err = <<>>

\* line 46: the with statement calls __exit__ however its body ended
ExitRuns(err) == TRUE

\* lines 46-52: the with block is left, by the end of its body (the tuple
\* of line 47 is in exit_code and output_lines) or by what the command
\* raised; __exit__ closes the session and lets the exception pass
QemuExit ==
    /\ pc \in {"returned", "call_raised"}
    /\ IF ExitRuns(error)
       THEN ExitBody
       ELSE UNCHANGED <<client, releases, open_channels, exit_calls>>
    /\ IF error = <<>>
       THEN pc' = "encode" /\ UNCHANGED localVars
       ELSE pc' = "qemu_raised" /\ LocalsIdle
    /\ UNCHANGED <<params, chan_closed, chan_releases, retries, retry_interval,
                   slept, attempts, failures, sleeps, target_ip, keyVars,
                   targetVars, ncmds, failed, via, cmd_result, error>>

\* lines 53-54: "output = ''.join(output_lines).encode()" and
\* "return exit_code, output"
QemuReturn ==
    /\ pc = "encode"
    /\ IF Encodable(Concat(stdout_lines))
       THEN /\ output' = Encode(Concat(stdout_lines))
            /\ cmd_result' = exit_code
            /\ pc' = "qemu_returned"
            /\ UNCHANGED error
       ELSE /\ error' = EncodeFailure
            /\ pc' = "qemu_raised"
            /\ UNCHANGED <<output, cmd_result>>
    /\ UNCHANGED <<params, localVars, chan_closed, chan_releases, open_channels,
                   connVars, keyVars, required, capabilities, got, got_set,
                   nexec, left_open, releases, exit_calls, ncmds, failed, via>>

\* the remote process writes a byte to its stdout
ProcWriteQ == WriteStdout(QemuOutBytes)

NextQemu ==
    \/ QemuExecute \/ QemuEnterRaises \/ QemuBodyCall \/ QemuExit \/ QemuReturn
    \/ EnterStart \/ ConnectOk \/ ConnectFail \/ RetrySleep \/ Exhausted
    \/ ProcWriteQ \/ ProcExit \/ ProcCloseNoStatus
    \/ ExecCommand \/ ExecCommandFails \/ Configure \/ ConfigureFails
    \/ LoopTop \/ PollStdout \/ PollStderr
    \/ ExitCheck \/ DrainWait \/ RecheckStdout \/ RecheckStderr \/ IdleWait
    \/ Except \/ FlushNormal \/ Result \/ ResultFails

SpecQemu == InitQemu /\ [][NextQemu]_vars

\* C32: each execute call works on a session of its own, made by the call
\* and connected at most once; whenever the caller runs again, after a call
\* that returned or raised, that session is closed if it was connected, no
\* channel is open and no earlier call has left a session connected; a call
\* that returns has released its session exactly once, and returns the exit
\* code execute_command_output returned (the process's status, or -1 after
\* an exception of the capture loop) with the UTF-8 encoding of the
\* concatenated stdout lines.
C32_SessionPerExecute ==
    /\ [][QemuExecute => (client' = "None" /\ attempts' = 0 /\ releases' = 0)]_vars
    /\ [](attempts - failures <= 1)
    /\ [](QemuCallerRuns =>
            (client # "connected" /\ left_open = 0 /\ open_channels = 0))
    /\ []((pc = "qemu_raised" /\ client = "closed") => releases = 1)
    /\ [](pc = "qemu_returned" =>
            /\ client = "closed" /\ releases = 1 /\ exit_calls = 1
            /\ cmd_result = exit_code
            /\ exit_code = (IF exception = "" THEN exit_status ELSE TimeoutSentinel)
            /\ output = Encode(Concat(stdout_lines)))

\* reached: the second call returns status 7 and the bytes EF BF BD 0A for
\* a command that wrote C2 0A
C32_Witness ==
    /\ pc = "qemu_returned" /\ nexec = 2
    /\ sentOut = <<194, 10>>
    /\ cmd_result = 7
    /\ output = <<239, 191, 189, 10>>

====
